---- MODULE Spec2Model ----
(***************************************************************************)
(* Model of imgui-rs-sdl3-renderer, src/src/lib.rs: Renderer::render and   *)
(* the helpers it calls (render_elements, render_raw_geometry,             *)
(* set_up_render_state).                                                   *)
(*                                                                         *)
(* One call of render is a run of steps: RenderEnter (lines 158-172), then *)
(* per draw list DrawListBegin (line 174) and per command one of Elements, *)
(* ResetRenderState, RawCallback (lines 175-198), then RenderExit (lines   *)
(* 201-203).  The draw data is borrowed read-only and read once, front to  *)
(* back, by the two iterators: its header and its shape (the number of     *)
(* commands of each draw list) are drawn at RenderEnter, the buffers of a  *)
(* draw list when the outer iterator yields it, a command when the inner   *)
(* iterator yields it.                                                     *)
(*                                                                         *)
(* f32 values are integers in units of 1/Den pixel; the values used are    *)
(* small, so every f32 operation of the code is exact on them.  Scale      *)
(* factors are whole numbers.                                              *)
(***************************************************************************)
EXTENDS Integers, Sequences, FiniteSets

\* ------------------------------------------------------------------ bounds
Den == 2          \* resolution of the modelled f32 values: 1/Den pixel
MaxCmds == 3      \* commands of one frame, over all its draw lists

\* ------------------------------------------------------- program constants
ColMax == 255

Px(n) == n * Den

VARIABLES
    pc,                 \* "idle": outside render; "run": inside the traversal
    result,             \* "none" | "Ok" | "GenericSDL": what render returned
    canvas,             \* [viewport, clip] of the sdl3 canvas
    color_buffer,       \* Renderer.color_buffer
    backup,             \* CanvasBackup of the running call
    display_pos, display_size, framebuffer_scale,   \* draw_data header
    shape,              \* number of commands of each draw list of draw_data
    li, ci,             \* position of the two iterators (ci = 0: list not begun)
    vtx_buffer, idx_buffer,   \* buffers of the current draw list
    entry_canvas,       \* history: canvas when render was entered
    seen,               \* history: commands the traversal has processed
    log,                \* history: geometry submissions and callback invocations
    last,               \* history: the command processed by the step just taken
    sub                 \* history: the SDL_RenderGeometryRaw call of that step

vars == <<pc, result, canvas, color_buffer, backup, display_pos, display_size,
          framebuffer_scale, shape, li, ci, vtx_buffer, idx_buffer,
          entry_canvas, seen, log, last, sub>>

\* ------------------------------------------------------------ canvas state
Rect(x, y, w, h) == [x |-> x, y |-> y, w |-> w, h |-> h]
NoRect == Rect(0, 0, 0, 0)

\* sdl3::render::ClippingRect
ClipNone == [kind |-> "None", rect |-> NoRect]
ClipSome(r) == [kind |-> "Some", rect |-> r]

\* the viewport of the whole render target (what set_viewport(None) selects)
FullViewport == Rect(0, 0, 16, 12)

DefaultCanvas == [viewport |-> FullViewport, clip |-> ClipNone]

\* states the host leaves the canvas in between two render calls
HostCanvasStates ==
    { DefaultCanvas,
      [viewport |-> Rect(1, 1, 6, 4), clip |-> ClipSome(Rect(2, 2, 3, 3))] }

\* what a raw callback (host code) may do to the canvas
CallbackCanvas == [viewport |-> Rect(0, 0, 4, 4), clip |-> ClipSome(Rect(1, 0, 2, 2))]
CallbackEffects == {"none", "canvas"}

\* a set-up that forgets the viewport
SetUpClipOnly(c) == [viewport |-> c.viewport, clip |-> ClipNone]

\* set_up_render_state: set_clip_rect(None); set_viewport(None)
SetUpRenderState(c) == [viewport |-> FullViewport, clip |-> ClipNone]


\* --------------------------------------------------------------- draw data
\* imgui::DrawVert
Vert(p, c) == [pos |-> <<p, p>>, uv |-> <<0, 0>>, col |-> c]
VertA == Vert(0, <<255, 0, 0, 255>>)
VertB == Vert(1, <<0, 128, 255, 64>>)
VertC == Vert(2, <<10, 20, 30, 40>>)

VertexBuffers == { <<VertA, VertB>>, <<VertC, VertA, VertB>> }
IndexBuffers == { <<0, 1, 0>> }

\* imgui::Textures: the font atlas registered by prepare_font_atlas
FontTexId == "font"
TextureMap == {FontTexId}
TextureIds == {FontTexId, "missing"}

\* header of imgui::DrawData
Header(pos, size, scale) ==
    [display_pos |-> pos, display_size |-> size, framebuffer_scale |-> scale]
Headers ==
    { Header(<<0, 0>>, <<Px(8), Px(6)>>, s) : s \in {<<1, 1>>, <<0, 1>>} } \cup
    { Header(<<Px(1), 1>>, <<Px(8), Px(6)>>, s) : s \in {<<2, 2>>, <<1, 0>>} } \cup
    { Header(<<0, 0>>, <<0, 0>>, <<1, 1>>) }

\* logical clip rectangles [x0, y0, x1, y1]: the x range varies with the full
\* y range, and the y range with the full x range
FullX == <<0, Px(8)>>
FullY == <<0, Px(6)>>
XRanges == { FullX, <<-1, Px(4)>>, <<Px(8), Px(9)>>, <<-Px(2), 0>>,
             <<Px(5), Px(3)>> }
YRanges == { FullY, <<-1, Px(3)>>, <<Px(6), Px(7)>>, <<-Px(2), 0>> }
FullClip == <<FullX[1], FullY[1], FullX[2], FullY[2]>>
ClipRects ==
    { <<x[1], FullY[1], x[2], FullY[2]>> : x \in XRanges } \cup
    { <<FullX[1], y[1], FullX[2], y[2]>> : y \in YRanges }

\* imgui::DrawCmd::Elements { count, cmd_params } over the buffers of a draw
\* list: the clip rectangle, the slices and the texture vary one at a time
Cmd(n, c, t, k, j) ==
    [count |-> n, clip_rect |-> c, texture_id |-> t,
     vtx_offset |-> k, idx_offset |-> j]
ElementsCmds(vtx, idx) ==
    { Cmd(Len(idx), c, FontTexId, 0, 0) : c \in ClipRects } \cup
    { Cmd(Len(idx), FullClip, t, 0, 0) : t \in TextureIds } \cup
    { Cmd(s[2], FullClip, FontTexId, k, s[1]) :
        k \in 0..1, s \in {<<0, Len(idx)>>, <<1, 1>>} }
NoCmd == [count |-> 0, clip_rect |-> <<0, 0, 0, 0>>, texture_id |-> "missing",
          vtx_offset |-> 0, idx_offset |-> 0]
WellFormed(cmd, vtx, idx) ==
    /\ cmd.vtx_offset <= Len(vtx)
    /\ cmd.idx_offset + cmd.count <= Len(idx)

\* shapes of a frame: draw lists are never empty (imgui drops empty lists)
RECURSIVE Shapes(_)
Shapes(n) ==
    {<<>>} \cup
    UNION { { <<k>> \o s : s \in Shapes(n - k) } : k \in 1..n }

RECURSIVE Sum(_)
Sum(s) == IF s = <<>> THEN 0 ELSE Head(s) + Sum(Tail(s))

\* ---------------------------------------------------------- pure functions
\* lines 166-167
FbSize(size, scale) == <<size[1] * scale[1], size[2] * scale[2]>>

\* a minimised test that looks at the width alone
MinimisedWidthOnly(fb) == fb[1] = 0

\* line 170
Minimised(fb) == fb[1] = 0 \/ fb[2] = 0

\* lines 226-229 and 230-233
ClipMin(clip_rect, pos, scale) ==
    <<(clip_rect[1] - pos[1]) * scale[1], (clip_rect[2] - pos[2]) * scale[2]>>
ClipMax(clip_rect, pos, scale) ==
    <<(clip_rect[3] - pos[1]) * scale[1], (clip_rect[4] - pos[2]) * scale[2]>>

\* a cull test that lets a clip starting on the framebuffer's edge through
CulledStrict(clip_min, clip_max, fb_size) ==
    \/ clip_min[1] > fb_size[1]
    \/ clip_min[2] > fb_size[2]
    \/ clip_max[1] < 0
    \/ clip_max[2] < 0

\* lines 234-237
Culled(clip_min, clip_max, fb_size) ==
    \/ clip_min[1] >= fb_size[1]
    \/ clip_min[2] >= fb_size[2]
    \/ clip_max[1] < 0
    \/ clip_max[2] < 0

\* a conversion that rounds down, as f32::floor would before the cast
AsI32Floor(v) == v \div Den

\* `as i32` of an f32 rounds toward zero; `as u32` rounds toward zero and
\* gives 0 for a negative value.  Both saturate at the ends of their type,
\* far outside the values of this model.
\* lines 243-244
AsI32(v) == IF v >= 0 THEN v \div Den ELSE -((-v) \div Den)
\* lines 245-246
AsU32(v) == IF v >= 0 THEN v \div Den ELSE 0

\* lines 242-247
ClipRectOf(clip_min, clip_max) ==
    Rect(AsI32(clip_min[1]), AsI32(clip_min[2]),
         AsU32(clip_max[1] - clip_min[1]), AsU32(clip_max[2] - clip_min[2]))

\* line 250: texture_map.get
TextureGet(id) == IF id \in TextureMap THEN id ELSE "null"

\* a vertex slice that ignores the offset
VtxSliceWhole(buf, off) == [base |-> 0, items |-> buf]

\* a slice of a draw list's buffer: where it starts and what it holds
\* line 255: &vertex_buffer[*vtx_offset..]
VtxSlice(buf, off) == [base |-> off, items |-> SubSeq(buf, off + 1, Len(buf))]
\* line 256: &index_buffer[*idx_offset..idx_offset + elem_count]
IdxSlice(buf, off, count) == SubSeq(buf, off + 1, off + count)

\* lines 270-275: a colour channel c is c as f32 / 255_f32, the fraction c/ColMax
Normalise(vert) ==
    [r |-> <<vert.col[1], ColMax>>, g |-> <<vert.col[2], ColMax>>,
     b |-> <<vert.col[3], ColMax>>, a |-> <<vert.col[4], ColMax>>]
\* a colour buffer that is never cleared
KeepBuffer(buf) == buf

\* line 268
ClearBuffer(buf) == <<>>
\* line 270
ExtendColours(buf, vertices) ==
    buf \o [i \in 1..Len(vertices) |-> Normalise(vertices[i])]

\* lines 289-304: the arguments of SDL_RenderGeometryRaw (pointers into the
\* vertex buffer as the index of the vertex they address)
GeometryCall(texture, vertices, colours, indices) ==
    [issued |-> TRUE, texture |-> texture,
     xy |-> vertices.base, uv |-> vertices.base,
     num_vertices |-> Len(vertices.items),
     colours |-> colours,
     indices |-> indices, num_indices |-> Len(indices)]
NoSub == [issued |-> FALSE, texture |-> "null", xy |-> 0, uv |-> 0,
          num_vertices |-> 0, colours |-> <<>>, indices |-> <<>>,
          num_indices |-> 0]

\* a submission whose failure is dropped
RenderResultIgnored(ok) == "Ok"

\* lines 305-306
RenderResultOf(ok) == IF ok THEN "Ok" ELSE "GenericSDL"

\* draw calls queued and issued newest first
IssueDrawFront(l, e) == <<e>> \o l

\* the draw calls reach the renderer in the order they are made
IssueDraw(l, e) == Append(l, e)


\* ------------------------------------------------------------ the machine
NoStep == [op |-> "none", cmd |-> NoCmd, culled |-> FALSE, sdl_ok |-> TRUE,
           at_call |-> DefaultCanvas]

Init ==
    /\ pc = "idle"
    /\ result = "none"
    /\ canvas = DefaultCanvas
    /\ color_buffer = <<>>
    /\ backup = DefaultCanvas
    /\ entry_canvas = DefaultCanvas
    /\ display_pos = <<0, 0>>
    /\ display_size = <<0, 0>>
    /\ framebuffer_scale = <<0, 0>>
    /\ shape = <<>>
    /\ li = 1
    /\ ci = 0
    /\ vtx_buffer = <<>>
    /\ idx_buffer = <<>>
    /\ seen = <<>>
    /\ log = <<>>
    /\ last = NoStep
    /\ sub = NoSub

fb_size == FbSize(display_size, framebuffer_scale)

\* the host, between two calls of render: takes the result and leaves the
\* canvas in a state of its own
HostSetCanvas ==
    /\ pc = "idle"
    /\ \E c \in HostCanvasStates : canvas' = c
    /\ result' = "none"
    /\ backup' = DefaultCanvas
    /\ entry_canvas' = DefaultCanvas
    /\ display_pos' = <<0, 0>>
    /\ display_size' = <<0, 0>>
    /\ framebuffer_scale' = <<0, 0>>
    /\ shape' = <<>>
    /\ li' = 1
    /\ ci' = 0
    /\ vtx_buffer' = <<>>
    /\ idx_buffer' = <<>>
    /\ seen' = <<>>
    /\ log' = <<>>
    /\ last' = NoStep
    /\ sub' = NoSub
    /\ UNCHANGED <<pc, color_buffer>>

\* render, lines 158-172: backup, default state, framebuffer size, and the
\* early return of a minimised window
RenderEnter ==
    /\ pc = "idle"
    /\ result = "none"
    /\ \E h \in Headers, sh \in Shapes(MaxCmds) :
        /\ display_pos' = h.display_pos
        /\ display_size' = h.display_size
        /\ framebuffer_scale' = h.framebuffer_scale
        /\ shape' = sh
        /\ IF Minimised(FbSize(h.display_size, h.framebuffer_scale))
           THEN pc' = "idle" /\ result' = "Ok"
           ELSE pc' = "run" /\ result' = "none"
    /\ backup' = [viewport |-> canvas.viewport, clip |-> canvas.clip]
    /\ entry_canvas' = canvas
    /\ canvas' = SetUpRenderState(canvas)
    /\ li' = 1
    /\ ci' = 0
    /\ vtx_buffer' = <<>>
    /\ idx_buffer' = <<>>
    /\ seen' = <<>>
    /\ log' = <<>>
    /\ last' = NoStep
    /\ sub' = NoSub
    /\ UNCHANGED color_buffer

\* line 174: the outer iterator yields the next draw list
DrawListBegin ==
    /\ pc = "run"
    /\ li <= Len(shape)
    /\ ci = 0
    /\ \E vtx \in VertexBuffers, idx \in IndexBuffers :
        /\ vtx_buffer' = vtx
        /\ idx_buffer' = idx
    /\ ci' = 1
    /\ last' = NoStep
    /\ sub' = NoSub
    /\ UNCHANGED <<pc, result, canvas, color_buffer, backup, display_pos,
                   display_size, framebuffer_scale, shape, li, entry_canvas,
                   seen, log>>

AtCommand == pc = "run" /\ li <= Len(shape) /\ ci >= 1

\* line 175: the inner iterator moves on; after the last command of a list
\* the outer one does
Advance ==
    IF ci < shape[li]
    THEN ci' = ci + 1 /\ li' = li
    ELSE ci' = 0 /\ li' = li + 1

Seen(kind, culled) ==
    Append(seen, [list |-> li, cmd |-> ci, kind |-> kind, culled |-> culled])

\* lines 177-190: DrawCmd::Elements, with render_elements (207-258) and
\* render_raw_geometry (260-307)
Elements ==
    /\ AtCommand
    /\ \E cmd \in ElementsCmds(vtx_buffer, idx_buffer), ok \in BOOLEAN :
        LET clip_min == ClipMin(cmd.clip_rect, display_pos, framebuffer_scale)
            clip_max == ClipMax(cmd.clip_rect, display_pos, framebuffer_scale)
            culled   == Culled(clip_min, clip_max, fb_size)
            rect     == ClipRectOf(clip_min, clip_max)
            texture  == TextureGet(cmd.texture_id)
            vertices == VtxSlice(vtx_buffer, cmd.vtx_offset)
            indices  == IdxSlice(idx_buffer, cmd.idx_offset, cmd.count)
            colours  == ExtendColours(ClearBuffer(color_buffer), vertices.items)
            call     == GeometryCall(texture, vertices, colours, indices)
        IN  /\ WellFormed(cmd, vtx_buffer, idx_buffer)
            /\ culled => ok
            /\ last' = [op |-> "Elements", cmd |-> cmd, culled |-> culled,
                        sdl_ok |-> ok, at_call |-> DefaultCanvas]
            /\ seen' = Seen("Elements", culled)
            /\ IF culled
               THEN /\ UNCHANGED <<canvas, color_buffer, log, pc, result>>
                    /\ sub' = NoSub
                    /\ Advance
               ELSE /\ canvas' = [canvas EXCEPT !.clip = ClipSome(rect)]
                    /\ color_buffer' = colours
                    /\ sub' = call
                    /\ log' = IssueDraw(log, [list |-> li, cmd |-> ci,
                                              kind |-> "geometry"])
                    /\ IF RenderResultOf(ok) = "Ok"
                       THEN UNCHANGED <<pc, result>> /\ Advance
                       ELSE /\ pc' = "idle"
                            /\ result' = RenderResultOf(ok)
                            /\ UNCHANGED <<li, ci>>
    /\ UNCHANGED <<backup, display_pos, display_size, framebuffer_scale, shape,
                   vtx_buffer, idx_buffer, entry_canvas>>

\* lines 191-193: DrawCmd::ResetRenderState
ResetRenderState ==
    /\ AtCommand
    /\ last' = [op |-> "ResetRenderState", cmd |-> NoCmd, culled |-> FALSE,
                sdl_ok |-> TRUE, at_call |-> DefaultCanvas]
    /\ seen' = Seen("ResetRenderState", FALSE)
    /\ canvas' = SetUpRenderState(canvas)
    /\ sub' = NoSub
    /\ Advance
    /\ UNCHANGED <<pc, result, color_buffer, backup, display_pos, display_size,
                   framebuffer_scale, shape, vtx_buffer, idx_buffer,
                   entry_canvas, log>>

\* a dispatch that applies the default state before the callback
CallbackStateDefault(c) == DefaultCanvas

\* what the canvas is when the callback is entered: render does nothing to it
\* between the match arm and the call (line 195)
CallbackState(c) == c

\* lines 194-196: DrawCmd::RawCallback; the callback is host code and may
\* leave the canvas as it likes
RawCallback ==
    /\ AtCommand
    /\ \E effect \in CallbackEffects :
        canvas' = IF effect = "none" THEN CallbackState(canvas) ELSE CallbackCanvas
    /\ last' = [op |-> "RawCallback", cmd |-> NoCmd, culled |-> FALSE,
                sdl_ok |-> TRUE, at_call |-> CallbackState(canvas)]
    /\ seen' = Seen("RawCallback", FALSE)
    /\ log' = IssueDraw(log, [list |-> li, cmd |-> ci, kind |-> "callback"])
    /\ sub' = NoSub
    /\ Advance
    /\ UNCHANGED <<pc, result, color_buffer, backup, display_pos, display_size,
                   framebuffer_scale, shape, vtx_buffer, idx_buffer,
                   entry_canvas>>

\* lines 201-203: both loops are done; restore the backup and return Ok
RenderExit ==
    /\ pc = "run"
    /\ li > Len(shape)
    /\ canvas' = [viewport |-> backup.viewport, clip |-> backup.clip]
    /\ pc' = "idle"
    /\ result' = "Ok"
    /\ last' = NoStep
    /\ sub' = NoSub
    /\ UNCHANGED <<color_buffer, backup, display_pos, display_size,
                   framebuffer_scale, shape, li, ci, vtx_buffer, idx_buffer,
                   entry_canvas, seen, log>>

Next ==
    \/ HostSetCanvas
    \/ RenderEnter
    \/ DrawListBegin
    \/ Elements
    \/ ResetRenderState
    \/ RawCallback
    \/ RenderExit

Spec == Init /\ [][Next]_vars

\* ------------------------------------------------------------------ claims
\* The claims speak of the framebuffer size, the mapped clip and the cull
\* test; these are their words, written out apart from the operators above.
Returned == pc = "idle" /\ result # "none"
ReturnedOk == Returned /\ result = "Ok"
FrameMinimised ==
    \/ display_size[1] * framebuffer_scale[1] = 0
    \/ display_size[2] * framebuffer_scale[2] = 0
MappedMin(c) ==
    <<(c[1] - display_pos[1]) * framebuffer_scale[1],
      (c[2] - display_pos[2]) * framebuffer_scale[2]>>
MappedMax(c) ==
    <<(c[3] - display_pos[1]) * framebuffer_scale[1],
      (c[4] - display_pos[2]) * framebuffer_scale[2]>>
ClaimCulled(c) ==
    \/ MappedMin(c)[1] >= display_size[1] * framebuffer_scale[1]
    \/ MappedMin(c)[2] >= display_size[2] * framebuffer_scale[2]
    \/ MappedMax(c)[1] < 0
    \/ MappedMax(c)[2] < 0
Floor(v) == v \div Den
TowardZero(v) == IF v >= 0 THEN v \div Den ELSE -((-v) \div Den)
NonNeg(n) == IF n < 0 THEN 0 ELSE n

\* the commands of a frame of shape sh in array order, from draw list l on
RECURSIVE CmdPositions(_, _)
CmdPositions(sh, l) ==
    IF l > Len(sh) THEN <<>>
    ELSE [c \in 1..sh[l] |-> <<l, c>>] \o CmdPositions(sh, l + 1)

Submits(e) == e.kind = "RawCallback" \/ (e.kind = "Elements" /\ ~e.culled)
Issued(e) ==
    [list |-> e.list, cmd |-> e.cmd,
     kind |-> IF e.kind = "RawCallback" THEN "callback" ELSE "geometry"]
IssuedOf(sq) == LET f == SelectSeq(sq, Submits) IN [i \in 1..Len(f) |-> Issued(f[i])]

VisibleElements == last.op = "Elements" /\ ~ClaimCulled(last.cmd.clip_rect)

\* C1: every render that returns Ok leaves the canvas's viewport and clip
\* rectangle as they were when render was entered (minimised frames and
\* frames without draw lists included).
C1_StateRestored == ReturnedOk => canvas = entry_canvas

\* C2: when fb_w or fb_h is zero, render returns Ok without entering the
\* traversal: no geometry submission and no raw callback, whatever the draw
\* data holds.
C2_MinimisedDrawsNothing ==
    (FrameMinimised /\ (pc = "run" \/ Returned)) =>
        /\ pc = "idle"
        /\ result = "Ok"
        /\ seen = <<>>
        /\ log = <<>>
        /\ sub = NoSub
C2_Witness ==
    /\ ReturnedOk
    /\ FrameMinimised
    /\ display_size[1] * framebuffer_scale[1] # 0
    /\ Sum(shape) = MaxCmds

\* C3: the geometry submissions and callback invocations of a render call
\* are, in order, the non-culled Elements commands and the RawCallback
\* commands of the commands processed, which are taken in array order (draw
\* lists in order, commands of a list in order), each once; a call that
\* returns Ok from the traversal has processed them all.
C3_OrderPreserved ==
    /\ Len(seen) <= Sum(shape)
    /\ \A i \in 1..Len(seen) :
        <<seen[i].list, seen[i].cmd>> = CmdPositions(shape, 1)[i]
    /\ log = IssuedOf(seen)
    /\ (ReturnedOk /\ ~FrameMinimised) => Len(seen) = Sum(shape)
C3_Witness ==
    /\ ReturnedOk
    /\ Len(seen) = MaxCmds
    /\ Len(log) = 2
    /\ log[1].kind = "callback"
    /\ log[2].kind = "geometry"
    /\ log[1].list < log[2].list
    /\ seen[2].culled

\* C4: a culled Elements command submits no geometry, leaves the canvas (its
\* clip rectangle included) and the colour buffer alone, is no error and
\* does not stop the traversal, which moves on to the next command.
C4_CulledSkipped ==
    [][ (seen' # seen /\ last'.op = "Elements"
            /\ ClaimCulled(last'.cmd.clip_rect)) =>
        /\ canvas' = canvas
        /\ log' = log
        /\ color_buffer' = color_buffer
        /\ sub' = NoSub
        /\ pc' = "run"
        /\ result' = "none"
        /\ <<li', ci'>> # <<li, ci>>
        /\ Len(seen') = Len(seen) + 1 ]_vars
C4_Witness ==
    /\ ReturnedOk
    /\ \E i \in 1..(Len(seen) - 1) :
        /\ seen[i].kind = "Elements" /\ seen[i].culled
        /\ seen[i + 1].kind = "Elements" /\ ~seen[i + 1].culled
        /\ \E j \in 1..Len(log) :
            log[j].list = seen[i + 1].list /\ log[j].cmd = seen[i + 1].cmd

\* C5: when the geometry submission of an Elements command fails, render
\* returns GenericSDL at once: the traversal stays at the failing command,
\* nothing later is submitted or invoked, the canvas keeps the clip
\* rectangle of the failing command (the backup is not restored), and what
\* was issued before stays issued.
C5_ErrorAborts ==
    /\ (last.op = "Elements" /\ ~last.culled /\ ~last.sdl_ok) =>
        /\ pc = "idle"
        /\ result = "GenericSDL"
    /\ result = "GenericSDL" =>
        /\ pc = "idle"
        /\ last.op = "Elements" /\ ~last.sdl_ok
        /\ VisibleElements
        /\ <<li, ci>> = <<seen[Len(seen)].list, seen[Len(seen)].cmd>>
        /\ log = IssuedOf(seen)
        /\ log[Len(log)] =
             [list |-> li, cmd |-> ci, kind |-> "geometry"]
        /\ canvas.clip.kind = "Some"
        /\ canvas.clip.rect.x = TowardZero(MappedMin(last.cmd.clip_rect)[1])
C5_Witness ==
    /\ result = "GenericSDL"
    /\ Len(seen) < Sum(shape)
    /\ li < Len(shape)
    /\ Len(log) >= 2
    /\ entry_canvas.clip.kind = "Some"
    /\ canvas # entry_canvas

\* C6 as stated: the clip rectangle set for a non-culled Elements command is
\* (floor(min.x), floor(min.y), floor(max.x - min.x), floor(max.y - min.y)),
\* a negative extent taken as zero.
C6_ClipIsFloor ==
    (VisibleElements /\ (pc = "run" \/ result = "GenericSDL")) =>
        LET mn == MappedMin(last.cmd.clip_rect)
            mx == MappedMax(last.cmd.clip_rect)
        IN  canvas.clip = ClipSome(Rect(Floor(mn[1]), Floor(mn[2]),
                                        NonNeg(Floor(mx[1] - mn[1])),
                                        NonNeg(Floor(mx[2] - mn[2]))))
\* C6 amended: the rectangle is built from min.x and min.y rounded toward
\* zero (not down), and max - min rounded toward zero with a negative extent
\* taken as zero.
C6_ClipIsTruncated ==
    (VisibleElements /\ (pc = "run" \/ result = "GenericSDL")) =>
        LET mn == MappedMin(last.cmd.clip_rect)
            mx == MappedMax(last.cmd.clip_rect)
        IN  canvas.clip = ClipSome(Rect(TowardZero(mn[1]), TowardZero(mn[2]),
                                        NonNeg(TowardZero(mx[1] - mn[1])),
                                        NonNeg(TowardZero(mx[2] - mn[2]))))
C6_Witness ==
    /\ VisibleElements
    /\ pc = "run"
    /\ MappedMin(last.cmd.clip_rect)[1] < 0
    /\ MappedMin(last.cmd.clip_rect)[1] % Den # 0
    /\ canvas.clip.rect.x = 0

\* C7 as stated: whenever a raw callback is invoked, the canvas is in the
\* backend default state, whatever commands precede it (taken here for the
\* first callback of a frame, so that no host code has touched the canvas).
C7_CallbackSeesDefault ==
    (last.op = "RawCallback"
        /\ \A i \in 1..(Len(seen) - 1) : seen[i].kind # "RawCallback") =>
    last.at_call = DefaultCanvas
\* C7 amended: a raw callback is invoked with the canvas exactly as the
\* preceding command left it, render doing nothing to it for the callback:
\* the default state right after the prologue or a ResetRenderState, but the
\* clip rectangle of a non-culled Elements command when one precedes it.
C7_CallbackSeesCurrent ==
    /\ [][ (seen' # seen /\ last'.op = "RawCallback") =>
            last'.at_call = canvas ]_vars
    /\ [] ( (last.op = "RawCallback" /\ Len(seen) >= 1) =>
            /\ (Len(seen) = 1 \/ seen[Len(seen) - 1].kind = "ResetRenderState")
                  => last.at_call = DefaultCanvas
            /\ (Len(seen) > 1 /\ Submits(seen[Len(seen) - 1])
                              /\ seen[Len(seen) - 1].kind = "Elements")
                  => last.at_call.clip.kind = "Some" )
C7_Witness ==
    /\ last.op = "RawCallback"
    /\ Len(seen) > 1
    /\ seen[Len(seen) - 1].kind = "Elements"
    /\ ~seen[Len(seen) - 1].culled
    /\ last.at_call.clip.kind = "Some"
    /\ last.at_call.viewport = FullViewport

\* C8: a ResetRenderState command leaves the canvas in the default state
\* (clip rectangle cleared, viewport the whole target) and submits nothing,
\* so the canvas is in that state after an earlier submission and before
\* the next command sets its clip.
C8_ResetAppliesDefault ==
    (last.op = "ResetRenderState" /\ pc = "run") =>
        /\ canvas.clip = ClipNone
        /\ canvas.viewport = FullViewport
        /\ sub = NoSub
        /\ log = IssuedOf(SubSeq(seen, 1, Len(seen) - 1))
C8_Witness ==
    /\ last.op = "ResetRenderState"
    /\ pc = "run"
    /\ li <= Len(shape)
    /\ Len(seen) = 2
    /\ seen[1].kind = "Elements"
    /\ ~seen[1].culled
    /\ Len(log) = 1

\* C9: the submission of an Elements command with vtx_offset k, idx_offset j
\* and count n on a draw list of V vertices has its vertex base at vertex k,
\* V - k vertices, the index entries j .. j+n-1, and as colour i the
\* normalised colour of vertex k+i.
C9_SliceAligned ==
    sub.issued =>
        LET k == last.cmd.vtx_offset
            j == last.cmd.idx_offset
            n == last.cmd.count
            V == Len(vtx_buffer)
        IN  /\ sub.xy = k
            /\ sub.uv = k
            /\ sub.num_vertices = V - k
            /\ sub.num_indices = n
            /\ sub.indices = [i \in 1..n |-> idx_buffer[j + i]]
            /\ Len(sub.colours) = V - k
            /\ \A i \in 1..(V - k) :
                LET col == vtx_buffer[k + i].col
                IN  sub.colours[i] =
                      [r |-> <<col[1], ColMax>>, g |-> <<col[2], ColMax>>,
                       b |-> <<col[3], ColMax>>, a |-> <<col[4], ColMax>>]
C9_Witness ==
    /\ sub.issued
    /\ last.cmd.vtx_offset > 0
    /\ last.cmd.idx_offset > 0
    /\ Len(vtx_buffer) - last.cmd.vtx_offset > 1

\* C10 as stated: at every geometry submission the colour buffer is as long
\* as the vertex buffer of the current draw list.
C10_BufferIsListLong ==
    sub.issued => Len(color_buffer) = Len(vtx_buffer)
\* C10 amended: at every geometry submission the colour buffer is as long as
\* the submitted vertex slice, the list's vertex count less vtx_offset,
\* whatever it held before.
C10_BufferIsSliceLong ==
    sub.issued =>
        /\ Len(color_buffer) = Len(vtx_buffer) - last.cmd.vtx_offset
        /\ color_buffer = sub.colours
C10_Witness ==
    /\ sub.issued
    /\ last.cmd.vtx_offset > 0
    /\ Len(log) >= 2
    /\ log[Len(log) - 1].kind = "geometry"
    /\ log[Len(log) - 1].list < log[Len(log)].list

=============================================================================
